---- MODULE Spec2Model ----
(***************************************************************************)
(* Flood detection backend: the serial listener (serial_reader.py), the    *)
(* payload normalizer (validation.py), the classifier wrapper              *)
(* (ml_engine.py), the explanation call (llm_engine.py) and the decision   *)
(* pipeline (processor.py), as one state machine (Spec, FairSpec); the      *)
(* functions of serial_reader.py called in any order (TransportSpec); and  *)
(* a FeatureBuffer of feature_engineering.py with its clock (FeatureSpec). *)
(*                                                                         *)
(* Conventions.  A Python Optional is a set: {} is None and {x} is x.      *)
(* Floats are integers in fixed point: distances in tenths of a            *)
(* centimetre, probabilities in hundredths.  A JSON value is a record      *)
(* [t, v]: t = "int" (v the integer), "flt" (v in tenths), "str" (a text   *)
(* that is no number), "null", or "absent" (the key is not in the object). *)
(***************************************************************************)
EXTENDS Integers, Sequences, FiniteSets, TLC

VARIABLES
    pc,           \* position of the serial-listener thread
    stop_event,   \* serial_reader._stop_event
    stopCalled,   \* lifespan has called stop_serial_listener for this thread
    ser,          \* serial_reader._ser: 0 is None, else a handle
    connection,   \* the listener's local `connection`: 0 is None, else a handle
    is_open,      \* handle -> serial.Serial.is_open
    status,       \* serial_reader._status
    configPort,   \* settings.SERIAL_PORT
    portUp,       \* environment: a port can be resolved and opened
    exc,          \* text of the exception being handled by the listener
    failPending,  \* a read-loop failure was handled, no connect attempt since
    lastWait,     \* duration of the listener's latest sleep
    data,         \* process_sensor_data: the parsed object
    db,           \* process_sensor_data: the session ("none", "open", "closed")
    payload,      \* process_sensor_data: normalized.payload
    errors,       \* process_sensor_data: normalized.errors
    risk,         \* process_sensor_data: risk
    prob,         \* process_sensor_data: prob
    err,          \* process_sensor_data: err
    explanation,  \* process_sensor_data: explanation
    llm,          \* what the explanation service did in this invocation
    events,       \* calls the current invocation has made, in order; "raised"
                  \* follows a store call that raised
    rows,         \* records committed by the current invocation
    samples,      \* FEATURE_BUFFER._samples: the retained payloads
    modelLoaded,  \* ml_engine._MODEL is not None
    meta,         \* ml_engine._META: "unloaded", "features" or "nofeatures"
    call,         \* the latest call a caller of serial_reader made
    snapshot,     \* the dict a caller got from get_serial_status()
    shared,       \* snapshot["last_json"] is the object _status["last_json"] is
    fb,           \* a FeatureBuffer: its _samples and _rain_start_ts
    now,          \* the clock _now_ts() reads, in seconds
    built,        \* the latest build_features call on fb and its outcome
    received,     \* the raw dict handed to normalize_sensor_payload
    normalized,   \* the NormalizedPayload that call returned, None before it
    statLock,     \* serial_reader._lock: None, or the thread holding it
    featLock,     \* FEATURE_BUFFER._lock: None, or the thread holding it
    tpc,          \* thread -> its position in the locked function it runs
    frame,        \* thread -> the locals of the locked function it runs
    whole         \* the values _status had after each completed update

vars == <<pc, stop_event, stopCalled, ser, connection, is_open, status,
          configPort, portUp, exc, failPending, lastWait, data, db, payload,
          errors, risk, prob, err, explanation, llm, events, rows,
          samples, modelLoaded, meta, call, snapshot, shared, fb, now, built,
          received, normalized, statLock, featLock, tpc, frame, whole>>

serialVars == <<ser, is_open, status>>
callerVars == <<call, snapshot, shared>>
bufferVars == <<fb, now, built>>
\* what the listener thread never touches
normVars == <<received, normalized>>
lockVars == <<statLock, featLock, tpc, frame, whole>>
restVars == <<callerVars, bufferVars, normVars, lockVars>>
procVars == <<data, db, payload, errors, risk, prob, err, explanation, llm,
              events, rows, samples, modelLoaded, meta>>

None == {}
Some(x) == {x}
TheVal(o) == CHOOSE x \in o : TRUE

----------------------------------------------------------------------------
(* JSON values and raw objects *)

Absent == [t |-> "absent", v |-> 0]
Null == [t |-> "null", v |-> 0]
Str == [t |-> "str", v |-> 0]
JInt(n) == [t |-> "int", v |-> n]
JFlt(tenths) == [t |-> "flt", v |-> tenths]
\* a text that spells a number with a decimal point, such as "7.5"
DecStr(tenths) == [t |-> "dstr", v |-> tenths]

Obj(d, h, ra, r, fs, f) ==
    [distance_cm |-> d, height |-> h, rain_analog |-> ra, rain |-> r,
     float_status |-> fs, float |-> f]

\* `raw.get(key) or default`: the default also when the value is null
Get_OrDefault(raw, key, default) ==
    IF raw[key].t \in {"absent", "null"} THEN default ELSE raw[key]

\* dict.get(key, default): the default only when the key is absent
Get(raw, key, default) == IF raw[key].t = "absent" THEN default ELSE raw[key]

\* truncation toward zero, as int() of a float
Trunc10(tenths) == IF tenths >= 0 THEN tenths \div 10 ELSE -((-tenths) \div 10)

\* _to_float taking any text for 0.0
to_float_TextIsZero(value) ==
    CASE value.t = "int" -> Some(value.v * 10)
      [] value.t = "flt" -> Some(value.v)
      [] value.t \in {"str", "dstr"} -> Some(0)
      [] OTHER -> None

\* validation._to_float: None, or the value in tenths
to_float(value) ==
    CASE value.t = "int" -> Some(value.v * 10)
      [] value.t = "flt" -> Some(value.v)
      [] value.t = "dstr" -> Some(value.v)
      [] OTHER -> None

\* validation._to_int: None, or the integer
to_int(value) ==
    CASE value.t = "int" -> Some(value.v)
      [] value.t = "flt" -> Some(Trunc10(value.v))
      [] OTHER -> None

\* the upper clamp comparing with one more than the ADC's top reading
RainMax_OffByOne == 1023 + 1

RainMax == 1023
MissingDistance == -10

\* the normalizer warning of a float_status outside {0, 1} and leaving it
normalize_sensor_payload_WarnsOnly(raw) ==
    LET distance == to_float(Get(raw, "distance_cm", Get(raw, "height", Null)))
        rain == to_int(Get(raw, "rain_analog", Get(raw, "rain", Null)))
        float_status == to_int(Get(raw, "float_status", Get(raw, "float", Null)))
        e1 == IF distance = None THEN <<"missing_distance">>
              ELSE IF TheVal(distance) < 0 THEN <<"invalid_distance">>
              ELSE <<>>
        d1 == IF distance = None THEN MissingDistance ELSE TheVal(distance)
        e2 == IF rain = None THEN <<"missing_rain">> ELSE <<>>
        r1 == IF rain = None THEN 0 ELSE TheVal(rain)
        w1 == IF r1 < 0 THEN <<"rain_clamped_low">> ELSE <<>>
        r2 == IF r1 < 0 THEN 0 ELSE r1
        w2 == IF r2 > RainMax THEN <<"rain_clamped_high">> ELSE <<>>
        r3 == IF r2 > RainMax THEN RainMax ELSE r2
        e3 == IF float_status = None THEN <<"missing_float_status">> ELSE <<>>
        f1 == IF float_status = None THEN 0 ELSE TheVal(float_status)
        w3 == IF f1 \notin {0, 1} THEN <<"float_status_coerced">> ELSE <<>>
    IN [payload |-> [distance_cm |-> d1, rain_analog |-> r3, float_status |-> f1],
        errors |-> e1 \o e2 \o e3,
        warnings |-> w1 \o w2 \o w3]

normalize_sensor_payload(raw) ==
    LET distance == to_float(Get(raw, "distance_cm", Get(raw, "height", Null)))
        rain == to_int(Get(raw, "rain_analog", Get(raw, "rain", Null)))
        float_status == to_int(Get(raw, "float_status", Get(raw, "float", Null)))
        e1 == IF distance = None THEN <<"missing_distance">>
              ELSE IF TheVal(distance) < 0 THEN <<"invalid_distance">>
              ELSE <<>>
        d1 == IF distance = None THEN MissingDistance ELSE TheVal(distance)
        e2 == IF rain = None THEN <<"missing_rain">> ELSE <<>>
        r1 == IF rain = None THEN 0 ELSE TheVal(rain)
        w1 == IF r1 < 0 THEN <<"rain_clamped_low">> ELSE <<>>
        r2 == IF r1 < 0 THEN 0 ELSE r1
        w2 == IF r2 > RainMax THEN <<"rain_clamped_high">> ELSE <<>>
        r3 == IF r2 > RainMax THEN RainMax ELSE r2
        e3 == IF float_status = None THEN <<"missing_float_status">> ELSE <<>>
        f1 == IF float_status = None THEN 0 ELSE TheVal(float_status)
        w3 == IF f1 \notin {0, 1} THEN <<"float_status_coerced">> ELSE <<>>
        f2 == IF f1 \notin {0, 1} THEN (IF f1 # 0 THEN 1 ELSE 0) ELSE f1
    IN [payload |-> [distance_cm |-> d1, rain_analog |-> r3, float_status |-> f2],
        errors |-> e1 \o e2 \o e3,
        warnings |-> w1 \o w2 \o w3]

----------------------------------------------------------------------------
(* The classifier wrapper, ml_engine.py *)

\* stand-in for deque(maxlen=35 * 60) of FeatureBuffer._samples
MaxSamples == 2

\* deque.append at the cap discarding the new sample instead of the oldest
DequeAppend_KeepsOldest(q, x) ==
    IF Len(q) >= MaxSamples THEN q ELSE Append(q, x)

\* deque.append with maxlen: at the cap the oldest sample is dropped
DequeAppend(q, x) ==
    IF Len(q) >= MaxSamples THEN Append(Tail(q), x) ELSE Append(q, x)

\* FeatureBuffer.build_features(raw), update_state = True: the retained samples
build_features_state(q, p) ==
    DequeAppend(q, [distance_cm |-> p.distance_cm, rain_analog |-> p.rain_analog,
                    float_status |-> p.float_status])

Classes == {0, 1, 2}
Probs == {90}

\* what the files and the fitted model do in one call of predict_risk
ClassifierEnvs ==
    [model_ok : BOOLEAN, meta : {"missing", "nofeatures", "features"},
     fit : {None} \cup {Some([cls |-> c, p |-> q]) : c \in Classes, q \in Probs}]

\* predict_risk_safe with a failure answered by class 0 instead of None
predict_risk_safe_Default(p, env) ==
    LET m1 == modelLoaded \/ env.model_ok
        meta1 == IF meta # "unloaded" THEN meta
                 ELSE IF env.meta = "missing" THEN "unloaded" ELSE env.meta
        Fail(text, m, mt, q) ==
            [risk |-> Some(0), prob |-> Some(0), err |-> Some(text),
             called |-> TRUE, modelLoaded |-> m, meta |-> mt, samples |-> q]
        q1 == build_features_state(samples, p)
    IN  IF ~m1 THEN Fail("No such file: flood_model.pkl", FALSE, meta, samples)
        ELSE IF meta1 = "unloaded"
             THEN Fail("No such file: flood_model_meta.pkl", TRUE, meta1, samples)
        ELSE IF meta1 = "nofeatures"
             THEN Fail("Model metadata missing 'features'", TRUE, meta1, samples)
        ELSE IF env.fit = None
             THEN Fail("predict failed", TRUE, meta1, q1)
        ELSE [risk |-> Some(TheVal(env.fit).cls), prob |-> Some(TheVal(env.fit).p),
              err |-> None, called |-> TRUE,
              modelLoaded |-> TRUE, meta |-> meta1, samples |-> q1]

\* predict_risk_safe: the result, and the module state it leaves behind.
\* predict_risk raises at the first failing step; later steps do not run.
predict_risk_safe(p, env) ==
    LET m1 == modelLoaded \/ env.model_ok
        meta1 == IF meta # "unloaded" THEN meta
                 ELSE IF env.meta = "missing" THEN "unloaded" ELSE env.meta
        Fail(text, m, mt, q) ==
            [risk |-> None, prob |-> None, err |-> Some(text), called |-> TRUE,
             modelLoaded |-> m, meta |-> mt, samples |-> q]
        q1 == build_features_state(samples, p)
    IN  IF ~m1 THEN Fail("No such file: flood_model.pkl", FALSE, meta, samples)
        ELSE IF meta1 = "unloaded"
             THEN Fail("No such file: flood_model_meta.pkl", TRUE, meta1, samples)
        ELSE IF meta1 = "nofeatures"
             THEN Fail("Model metadata missing 'features'", TRUE, meta1, samples)
        ELSE IF env.fit = None
             THEN Fail("predict failed", TRUE, meta1, q1)
        ELSE [risk |-> Some(TheVal(env.fit).cls), prob |-> Some(TheVal(env.fit).p),
              err |-> None, called |-> TRUE,
              modelLoaded |-> TRUE, meta |-> meta1, samples |-> q1]

----------------------------------------------------------------------------
(* The decision of process_sensor_data, processor.py lines 21-44 *)

RECURSIVE Join(_)
\* ",".join(seq)
Join(seq) ==
    IF seq = <<>> THEN <<>>
    ELSE IF Len(seq) = 1 THEN <<seq[1]>>
    ELSE <<seq[1], ",">> \o Join(Tail(seq))

HighRisk == 2
ProbOne == 100

\* Decide with the payload-errors test ahead of the float-switch test
Decide_ErrorsFirst(n, env) ==
    LET emergency == n.payload.float_status = 1
        same == [modelLoaded |-> modelLoaded, meta |-> meta, samples |-> samples]
    IN  IF n.errors # <<>>
        THEN [risk |-> None, prob |-> None,
              err |-> Some(<<"payload_errors=">> \o Join(n.errors)),
              called |-> FALSE] @@ same
        ELSE IF emergency
        THEN [risk |-> Some(HighRisk), prob |-> Some(ProbOne),
              err |-> Some(<<"emergency_override">>), called |-> FALSE] @@ same
        ELSE LET r == predict_risk_safe(n.payload, env)
             IN [r EXCEPT !.err = IF r.err = None THEN None
                                  ELSE Some(<<TheVal(r.err)>>)]

\* Decide without the payload-errors branch
Decide_NoErrorSkip(n, env) ==
    LET emergency == n.payload.float_status = 1
        same == [modelLoaded |-> modelLoaded, meta |-> meta, samples |-> samples]
    IN  IF emergency
        THEN [risk |-> Some(HighRisk), prob |-> Some(ProbOne),
              err |-> Some(<<"emergency_override">>), called |-> FALSE] @@ same
        ELSE LET r == predict_risk_safe(n.payload, env)
             IN [r EXCEPT !.err = IF r.err = None THEN None
                                  ELSE Some(<<TheVal(r.err)>>)]

\* risk, prob, err after the if/elif/else; err of the payload_errors branch is
\* kept as the sequence of its pieces: "payload_errors=", then the joined codes
Decide(n, env) ==
    LET emergency == n.payload.float_status = 1
        same == [modelLoaded |-> modelLoaded, meta |-> meta, samples |-> samples]
    IN  IF emergency
        THEN [risk |-> Some(HighRisk), prob |-> Some(ProbOne),
              err |-> Some(<<"emergency_override">>), called |-> FALSE] @@ same
        ELSE IF n.errors # <<>>
        THEN [risk |-> None, prob |-> None,
              err |-> Some(<<"payload_errors=">> \o Join(n.errors)),
              called |-> FALSE] @@ same
        ELSE LET r == predict_risk_safe(n.payload, env)
             IN [r EXCEPT !.err = IF r.err = None THEN None
                                  ELSE Some(<<TheVal(r.err)>>)]

----------------------------------------------------------------------------
(* The explanation call, llm_engine.py *)

\* what the explanation service does in one call of generate_explanation:
\* "text" and "empty" are HTTP 200 answers, "http_error" any other status,
\* "unavailable" an exception of requests.post (refused, timed out),
\* "bad_url" an exception of _normalize_ollama_url, outside ollama_generate's try
LlmOutcomes == {"text", "empty", "http_error", "unavailable", "bad_url"}

LlmFailures == {"http_error", "unavailable", "bad_url"}

\* ollama_generate: the returned text
ollama_generate(o) ==
    CASE o = "text" -> "LLM response"
      [] o = "empty" -> ""
      [] o = "http_error" -> "LLM error"
      [] o = "unavailable" -> "LLM unavailable"

\* generate_explanation: None when it raises, else the text
generate_explanation(o) ==
    IF o = "bad_url" THEN None
    ELSE LET result == ollama_generate(o)
         IN Some(IF result # "" THEN result ELSE "No explanation generated.")

----------------------------------------------------------------------------
(* The transport manager, serial_reader.py *)

NumHandles == 3
Handles == 1..NumHandles

\* a handle no reference holds: the object serial.Serial(...) constructs
FreshHandle == CHOOSE h \in Handles : h # ser /\ h # connection

SERIAL_CONNECT_RETRY_SECONDS == 2

SetStatus(upd) == [k \in DOMAIN status |-> IF k \in DOMAIN upd THEN upd[k] ELSE status[k]]

\* the keywords _auto_detect_port looks for in a port's description
Keywords ==
    {"arduino", "usb serial", "wch", "ch340", "cp210", "ftdi", "silicon labs"}

\* an enumerated port: its device name, and the set of words its lowered
\* description text (device, description, manufacturer, hwid) contains
Port(device, words) == [device |-> device, words |-> words]

\* score(p): the number of keywords found in the text
score(p) == Cardinality(p.words \cap Keywords)

\* _auto_detect_port with the first enumerated port taken, whatever its score
auto_detect_port_First(candidates) ==
    IF candidates = <<>> THEN None ELSE Some(candidates[1].device)

\* _auto_detect_port on the list comports() returned: None for an empty list,
\* else max(candidates, key=score), the first port of the highest score
auto_detect_port(candidates) ==
    IF candidates = <<>> THEN None
    ELSE LET top == CHOOSE i \in DOMAIN candidates :
                       /\ \A j \in DOMAIN candidates :
                             score(candidates[j]) <= score(candidates[i])
                       /\ \A j \in 1..(i - 1) :
                             score(candidates[j]) < score(candidates[i])
         IN Some(candidates[top].device)

\* the lists comports() returns in this model when ports are present
PortLists ==
    { <<Port("ttyS0", {"16550a"}), Port("ttyUSB0", {"usb serial", "ch340"}),
        Port("ttyACM0", {"arduino"})>>,
      <<Port("COM1", {}), Port("COM4", {"ftdi"}), Port("COM5", {"cp210"})>> }

\* what port resolution and serial.Serial(port) do in one call: kind "up" (a
\* port is enumerated and opens), "no_ports" (comports() returns an empty
\* list), "enum_raises" (comports() raises), "open_fails" (serial.Serial raises)
PortEnvs ==
    IF portUp THEN [kind : {"up"}, ports : PortLists]
    ELSE [kind : {"no_ports"}, ports : {<<>>}]
         \cup [kind : {"enum_raises", "open_fails"}, ports : PortLists]

\* settings.SERIAL_PORT, else _auto_detect_port(): None, or the port
ResolvePort(e) ==
    IF configPort # None THEN configPort ELSE auto_detect_port(e.ports)

\* _connect(port): the returned handle r (0 for None), and the module state
connect(port, e) ==
    IF e.kind = "up"
    THEN [r |-> FreshHandle, raised |-> FALSE, tried |-> TRUE,
          ser |-> FreshHandle,
          is_open |-> [is_open EXCEPT ![FreshHandle] = TRUE],
          status |-> SetStatus([connected |-> TRUE, port |-> Some(port),
                                last_error |-> None])]
    ELSE [r |-> 0, raised |-> FALSE, tried |-> TRUE,
          ser |-> 0,
          is_open |-> is_open,
          status |-> SetStatus([connected |-> FALSE, port |-> Some(port),
                                last_error |-> Some("could not open port")])]

\* get_serial_connection() in port environment e: the returned handle r (0 for
\* None) and the module state; raised when list_ports.comports() raises, which
\* no try encloses; tried when a port was looked for
get_serial_connection(e) ==
    LET same == [ser |-> ser, is_open |-> is_open, status |-> status]
    IN  IF ser # 0 /\ is_open[ser]
        THEN [r |-> ser, raised |-> FALSE, tried |-> FALSE] @@ same
        ELSE IF configPort = None /\ e.kind = "enum_raises"
        THEN [r |-> 0, raised |-> TRUE, tried |-> TRUE] @@ same
        ELSE IF ResolvePort(e) = None
        THEN [r |-> 0, raised |-> FALSE, tried |-> TRUE,
              ser |-> ser, is_open |-> is_open,
              status |-> SetStatus([connected |-> FALSE, port |-> None,
                                last_error |-> Some("No serial ports detected")])]
        ELSE connect(TheVal(ResolvePort(e)), e)

\* send_alert without its try: a failed write raises
send_alert_Raises(e, wrote) ==
    LET g == get_serial_connection(e)
    IN  IF g.raised \/ g.r = 0 \/ wrote THEN g
        ELSE [g EXCEPT !.raised = TRUE]

\* send_alert with a failed write treated as a lost connection: the handle is
\* closed and the status reports disconnected
send_alert_Disconnects(e, wrote) ==
    LET g == get_serial_connection(e)
    IN  IF g.raised \/ g.r = 0 \/ wrote THEN g
        ELSE [g EXCEPT !.status = [g.status EXCEPT
                                      !.last_error = Some("write failed"),
                                      !.connected = FALSE],
                       !.is_open = [g.is_open EXCEPT ![g.r] = FALSE]]

\* send_alert(command) in port environment e, the write succeeding or not:
\* the module state, and whether the call raised
send_alert(e, wrote) ==
    LET g == get_serial_connection(e)
    IN  IF g.raised \/ g.r = 0 \/ wrote THEN g
        ELSE [g EXCEPT !.status = [g.status EXCEPT
                                      !.last_error = Some("write failed")]]

\* serial.Serial.close(): it can raise, and is_open is then left as it was
Close(h, ok) == IF ok THEN [is_open EXCEPT ![h] = FALSE] ELSE is_open

----------------------------------------------------------------------------
(* Inputs *)

\* the objects the device sends in this model
RawPayloads ==
    { Obj(JInt(50), Absent, JInt(600), Absent, JInt(0), Absent),
      Obj(Absent, JInt(40), Absent, JInt(2000), Absent, JInt(1)),
      Obj(Str, Absent, JInt(-3), Absent, JInt(2), Absent),
      Obj(JInt(-5), Absent, Absent, Absent, JInt(0), Absent) }

NoObj == Obj(Absent, Absent, Absent, Absent, Absent, Absent)
NoPayload == [distance_cm |-> 0, rain_analog |-> 0, float_status |-> 0]

\* no call made yet
NoCall == [op |-> "none", raised |-> FALSE, seq |-> 0]

\* FeatureBuffer.__init__
FeatureBuffer == [samples |-> <<>>, rain_start_ts |-> None]

\* no build_features call made yet
NoBuild ==
    [update_state |-> FALSE,
     raw |-> [distance_cm |-> 0, rain_analog |-> 0, float_status |-> 0],
     before |-> 0, raised |-> FALSE,
     features |-> [rise_rate_cm_per_min |-> [num |-> 0, den |-> 1],
                   distance_rolling_mean_3min |-> [num |-> 0, den |-> 1],
                   rain_trend_5min |-> [num |-> 0, den |-> 1],
                   time_since_rain_start |-> 0],
     seq |-> 0]

\* the listener thread and a thread serving a request
Threads == {"listener", "request"}

\* the locals of a thread that is in neither locked function
NoFrame ==
    [raw |-> NoPayload, update_state |-> FALSE, entry |-> FeatureBuffer,
     now_ts |-> 0, prev |-> None, samples_snapshot |-> <<>>,
     rain_start_ts |-> None, samples_for_calc |-> <<>>,
     features |-> NoBuild.features, kwargs |-> <<>>, copy |-> <<>>]

Init ==
    /\ pc = "idle"
    /\ stop_event = FALSE
    /\ stopCalled = FALSE
    /\ ser = 0
    /\ connection = 0
    /\ is_open = [h \in Handles |-> FALSE]
    /\ status = [connected |-> FALSE, port |-> None, last_line |-> None,
                 last_json |-> None, last_error |-> None]
    /\ configPort \in {None, Some("COM3")}
    /\ portUp \in BOOLEAN
    /\ exc = None
    /\ failPending = FALSE
    /\ lastWait = None
    /\ data = NoObj
    /\ db = "none"
    /\ payload = NoPayload
    /\ errors = <<>>
    /\ risk = None
    /\ prob = None
    /\ err = None
    /\ explanation = None
    /\ llm = None
    /\ events = <<>>
    /\ rows = <<>>
    /\ samples = <<>>
    /\ modelLoaded = FALSE
    /\ meta = "unloaded"
    /\ call = NoCall
    /\ snapshot = None
    /\ shared = FALSE
    /\ fb = FeatureBuffer
    /\ now = 0
    /\ built = NoBuild
    /\ received = NoObj
    /\ normalized = None
    /\ statLock = None
    /\ featLock = None
    /\ tpc = [t \in Threads |-> "idle"]
    /\ frame = [t \in Threads |-> NoFrame]
    /\ whole = {status}

----------------------------------------------------------------------------
(* main.py lifespan, and the environment *)

\* lifespan startup, entered once in the life of the process: no thread
\* exists yet and one is created
StartThread ==
    /\ pc = "idle"
    /\ pc' = "start"
    /\ stopCalled' = FALSE
    /\ UNCHANGED <<stop_event, connection, serialVars, configPort, restVars, portUp, exc,
                   failPending, lastWait, procVars>>

\* lifespan shutdown: stop_serial_listener()
StopListener ==
    /\ pc # "idle"
    /\ ~stopCalled
    /\ stop_event' = TRUE
    /\ stopCalled' = TRUE
    /\ UNCHANGED <<pc, connection, serialVars, configPort, restVars, portUp, exc,
                   failPending, lastWait, procVars>>

\* the device is plugged in or out
PortChange ==
    /\ portUp' = ~portUp
    /\ UNCHANGED <<pc, stop_event, stopCalled, connection, serialVars, configPort, restVars,
                   exc, failPending, lastWait, procVars>>

----------------------------------------------------------------------------
(* start_serial_listener, the listener thread *)

\* lines 129-131
ClearStop ==
    /\ pc = "start"
    /\ stop_event' = FALSE
    /\ connection' = 0
    /\ pc' = "outer"
    /\ UNCHANGED <<stopCalled, serialVars, configPort, restVars, portUp, exc, failPending,
                   lastWait, procVars>>

\* line 132, the outer while test
OuterTest ==
    /\ pc = "outer"
    /\ pc' = IF stop_event THEN "shutdown" ELSE "getconn"
    /\ UNCHANGED <<stop_event, stopCalled, connection, serialVars, configPort, restVars,
                   portUp, exc, failPending, lastWait, procVars>>

\* lines 133-138: get_serial_connection() returns
GetConnection ==
    /\ pc = "getconn"
    /\ \E e \in PortEnvs :
          LET g == get_serial_connection(e)
          IN /\ ~g.raised
             /\ connection' = g.r
             /\ ser' = g.ser
             /\ is_open' = g.is_open
             /\ status' = g.status
             /\ failPending' = (failPending /\ ~g.tried)
             /\ pc' = IF g.r = 0 THEN "sleep" ELSE "inner"
    /\ UNCHANGED <<stop_event, stopCalled, configPort, restVars, portUp, exc, lastWait,
                   procVars>>

\* line 133: get_serial_connection() raises; nothing in the thread catches it
GetConnectionRaises ==
    /\ pc = "getconn"
    /\ \E e \in PortEnvs : get_serial_connection(e).raised
    /\ failPending' = FALSE
    /\ pc' = "crashed"
    /\ UNCHANGED <<stop_event, stopCalled, connection, serialVars, configPort, restVars,
                   portUp, exc, lastWait, procVars>>

\* lines 135 and 167: time.sleep(settings.SERIAL_CONNECT_RETRY_SECONDS)
Sleep ==
    /\ pc = "sleep"
    /\ lastWait' = Some(SERIAL_CONNECT_RETRY_SECONDS)
    /\ exc' = None
    /\ pc' = "outer"
    /\ UNCHANGED <<stop_event, stopCalled, connection, serialVars, configPort, restVars,
                   portUp, failPending, procVars>>

\* line 140, the inner while test; a normal exit falls back to the outer test
InnerTest ==
    /\ pc = "inner"
    /\ pc' = IF stop_event THEN "outer" ELSE "read"
    /\ UNCHANGED <<stop_event, stopCalled, connection, serialVars, configPort, restVars,
                   portUp, exc, failPending, lastWait, procVars>>

\* lines 141-143: readline() times out with nothing read
ReadNothing ==
    /\ pc = "read"
    /\ pc' = "inner"
    /\ UNCHANGED <<stop_event, stopCalled, connection, serialVars, configPort, restVars,
                   portUp, exc, failPending, lastWait, procVars>>

\* received lines that are skipped: one not delimited by braces, and one that
\* is but does not parse
NoiseLines == {"garbage", "{not json}"}

\* ReadNoise with the skipped line reported as an error of the transport
ReadNoise_RecordsError ==
    /\ pc = "read"
    /\ \E line \in NoiseLines :
          status' = SetStatus([last_line |-> Some(line),
                               last_error |-> Some("bad line")])
    /\ pc' = "inner"
    /\ UNCHANGED <<stop_event, stopCalled, connection, ser, is_open, configPort, restVars,
                   portUp, exc, failPending, lastWait, procVars>>

\* lines 141-154: a line that is not delimited by braces, or is no JSON
ReadNoise ==
    /\ pc = "read"
    /\ \E line \in NoiseLines :
          status' = SetStatus([last_line |-> Some(line)])
    /\ pc' = "inner"
    /\ UNCHANGED <<stop_event, stopCalled, connection, ser, is_open, configPort, restVars,
                   portUp, exc, failPending, lastWait, procVars>>

\* ReadObject with the parsed object recorded but not handed to the pipeline
ReadObject_Drops ==
    /\ pc = "read"
    /\ \E raw \in RawPayloads :
          status' = SetStatus([last_line |-> Some("{json}"),
                               last_json |-> Some(raw)])
    /\ pc' = "inner"
    /\ UNCHANGED <<stop_event, stopCalled, connection, ser, is_open, configPort, restVars,
                   portUp, exc, failPending, lastWait, procVars>>

\* lines 141-157: a line that parses; process_sensor_data(data) is entered
ReadObject ==
    /\ pc = "read"
    /\ \E raw \in RawPayloads :
          /\ status' = SetStatus([last_line |-> Some("{json}"),
                                  last_json |-> Some(raw)])
          /\ data' = raw
    /\ pc' = "p_session"
    /\ UNCHANGED <<stop_event, stopCalled, connection, ser, is_open, configPort, restVars,
                   portUp, exc, failPending, lastWait, db, payload, errors, risk,
                   prob, err, explanation, llm, events, rows, samples,
                   modelLoaded, meta>>

\* line 141: readline() raises
ReadRaises ==
    /\ pc = "read"
    /\ exc' = Some("read failed")
    /\ pc' = "except"
    /\ UNCHANGED <<stop_event, stopCalled, connection, serialVars, configPort, restVars,
                   portUp, failPending, lastWait, procVars>>

\* lines 159-166, the except block; `_ser = None` binds a local of
\* start_serial_listener (the function has no `global _ser`), so the module's
\* _ser keeps the handle
ReadLoopFailed ==
    /\ pc = "except"
    /\ status' = SetStatus([connected |-> FALSE, last_error |-> exc])
    /\ \E ok \in BOOLEAN : is_open' = Close(connection, ok)
    /\ ser' = ser
    /\ failPending' = TRUE
    /\ pc' = "sleep"
    /\ UNCHANGED <<stop_event, stopCalled, connection, configPort, restVars, portUp, exc,
                   lastWait, procVars>>

\* lines 169-176, the shutdown path
Shutdown ==
    /\ pc = "shutdown"
    /\ IF connection # 0 /\ is_open[connection]
       THEN \E ok \in BOOLEAN : is_open' = Close(connection, ok)
       ELSE is_open' = is_open
    /\ status' = SetStatus([connected |-> FALSE])
    /\ pc' = "stopped"
    /\ UNCHANGED <<stop_event, stopCalled, connection, ser, configPort, restVars, portUp,
                   exc, failPending, lastWait, procVars>>

----------------------------------------------------------------------------
(* process_sensor_data, processor.py, run on the listener thread *)

\* the locals of an invocation that is not running
NoLocals ==
    /\ data' = NoObj
    /\ db' = "none"
    /\ payload' = NoPayload
    /\ errors' = <<>>
    /\ risk' = None
    /\ prob' = None
    /\ err' = None
    /\ explanation' = None
    /\ llm' = None
    /\ events' = <<>>
    /\ rows' = <<>>

\* line 18: db = SessionLocal(), before the try
OpenSession ==
    /\ pc = "p_session"
    /\ db' = "open"
    /\ pc' = "p_decide"
    /\ UNCHANGED <<stop_event, stopCalled, connection, serialVars, configPort, restVars,
                   portUp, exc, failPending, lastWait, data, payload, errors,
                   risk, prob, err, explanation, llm, events, rows, samples,
                   modelLoaded, meta>>

\* line 18: SessionLocal() raises; the exception leaves process_sensor_data
\* and is caught by the listener's except block
OpenSessionRaises ==
    /\ pc = "p_session"
    /\ NoLocals
    /\ exc' = Some("session failed")
    /\ pc' = "except"
    /\ UNCHANGED <<stop_event, stopCalled, connection, serialVars, configPort, restVars,
                   portUp, failPending, lastWait, samples, modelLoaded, meta>>

\* lines 21-44: normalize, then override, skip or classify
DecideRisk ==
    /\ pc = "p_decide"
    /\ \E env \in ClassifierEnvs :
          LET n == normalize_sensor_payload(data)
              d == Decide(n, env)
          IN /\ payload' = n.payload
             /\ errors' = n.errors
             /\ risk' = d.risk
             /\ prob' = d.prob
             /\ err' = d.err
             /\ events' = IF d.called THEN Append(events, "predict") ELSE events
             /\ samples' = d.samples
             /\ modelLoaded' = d.modelLoaded
             /\ meta' = d.meta
    /\ pc' = "p_act"
    /\ UNCHANGED <<stop_event, stopCalled, connection, serialVars, configPort, restVars,
                   portUp, exc, failPending, lastWait, data, db, explanation,
                   llm, rows>>

\* the command lines 49-60 pass to send_alert
AlertFor(rk, pb) ==
    IF rk # None /\ pb # None /\ TheVal(rk) >= HighRisk THEN "ALERT_ON"
    ELSE "ALERT_OFF"

\* whether lines 49-52 call generate_explanation
Explains(rk, pb) == rk # None /\ pb # None /\ TheVal(rk) >= HighRisk

\* ActEvents without the final else: no command when risk is indeterminate
ActEvents_NoDefault(rk, pb) ==
    IF rk = None \/ pb = None THEN <<>>
    ELSE IF Explains(rk, pb) THEN <<"explain", AlertFor(rk, pb)>>
    ELSE <<AlertFor(rk, pb)>>

\* the calls lines 48-60 make, in order
ActEvents(rk, pb) ==
    IF Explains(rk, pb) THEN <<"explain", AlertFor(rk, pb)>>
    ELSE <<AlertFor(rk, pb)>>

\* lines 46-60 with send_alert: the explanation when risk is high, then the
\* command; an exception of send_alert is caught at line 80 and the store
\* is skipped
Actuate ==
    /\ pc = "p_act"
    /\ IF Explains(risk, prob)
       THEN \E o \in LlmOutcomes : /\ explanation' = generate_explanation(o)
                                   /\ llm' = Some(o)
       ELSE UNCHANGED <<explanation, llm>>
    /\ events' = events \o ActEvents(risk, prob)
    /\ \E e \in PortEnvs, wrote \in BOOLEAN :
          LET a == send_alert(e, wrote)
          IN /\ ser' = a.ser
             /\ is_open' = a.is_open
             /\ status' = a.status
             /\ failPending' = (failPending /\ ~a.tried)
             /\ pc' = IF a.raised THEN "p_close" ELSE "p_store"
    /\ UNCHANGED <<stop_event, stopCalled, connection, configPort, restVars, portUp, exc,
                   lastWait, data, db, payload, errors, risk, prob, err, rows,
                   samples, modelLoaded, meta>>

\* the SensorReading of lines 63-70
Record ==
    [distance_cm |-> payload.distance_cm, rain_analog |-> payload.rain_analog,
     float_status |-> payload.float_status, predicted_risk |-> risk,
     risk_probability |-> prob, explanation |-> explanation]

\* lines 62-81: db.add and db.commit; an exception of either is caught at
\* line 80 and logged
Store ==
    /\ pc = "p_store"
    /\ \E o \in {"ok", "add_raises", "commit_raises"} :
          /\ events' = CASE o = "ok" -> events \o <<"add", "commit">>
                         [] o = "commit_raises" ->
                               events \o <<"add", "commit", "raised">>
                         [] o = "add_raises" -> events \o <<"add", "raised">>
          /\ rows' = IF o = "ok" THEN Append(rows, Record) ELSE rows
    /\ pc' = "p_close"
    /\ UNCHANGED <<stop_event, stopCalled, connection, serialVars, configPort, restVars,
                   portUp, exc, failPending, lastWait, data, db, payload, errors,
                   risk, prob, err, explanation, llm, samples, modelLoaded,
                   meta>>

\* lines 83-84: db.close() in the finally; the call returns to the read loop
CloseSession ==
    /\ pc = "p_close"
    /\ NoLocals
    /\ pc' = "inner"
    /\ UNCHANGED <<stop_event, stopCalled, connection, serialVars, configPort, restVars,
                   portUp, exc, failPending, lastWait, samples, modelLoaded,
                   meta>>

\* line 84: db.close() raises; nothing in process_sensor_data catches it and
\* the listener's except block does
CloseSessionRaises ==
    /\ pc = "p_close"
    /\ NoLocals
    /\ exc' = Some("session close failed")
    /\ pc' = "except"
    /\ UNCHANGED <<stop_event, stopCalled, connection, serialVars, configPort, restVars,
                   portUp, failPending, lastWait, samples, modelLoaded, meta>>

----------------------------------------------------------------------------

Listener ==
    \/ ClearStop \/ OuterTest \/ GetConnection \/ GetConnectionRaises
    \/ Sleep \/ InnerTest \/ ReadNothing \/ ReadNoise \/ ReadObject
    \/ ReadRaises \/ ReadLoopFailed \/ Shutdown
    \/ OpenSession \/ OpenSessionRaises \/ DecideRisk \/ Actuate \/ Store
    \/ CloseSession \/ CloseSessionRaises

Next == StartThread \/ StopListener \/ PortChange \/ Listener

Spec == Init /\ [][Next]_vars

\* lifespan startup runs; the thread is scheduled, and every call it makes
\* returns or raises
FairSpec == Spec /\ WF_vars(StartThread) /\ WF_vars(Listener)

----------------------------------------------------------------------------
(* serial_reader.py as its callers see it: the functions of the module called *)
(* in any order, by the pipeline (send_alert), by a request thread            *)
(* (get_serial_status, main.py:83 and 153) and by the listener                *)
(* (get_serial_connection, close, the status writes of its read loop).        *)

listenerVars == <<pc, stop_event, stopCalled, connection, exc, failPending,
                  lastWait>>

\* the record of a call just made; seq alternates so that two equal calls in
\* a row differ
Made(op, raised) == [op |-> op, raised |-> raised, seq |-> 1 - call.seq]

\* get_serial_status(): dict(_status), a new dict with the same values; the
\* object under "last_json" is not copied
get_serial_status == status

\* send_alert(command), lines 183-192
CallSendAlert ==
    /\ \E e \in PortEnvs, wrote \in BOOLEAN :
          LET a == send_alert(e, wrote)
          IN /\ ser' = a.ser
             /\ is_open' = a.is_open
             /\ status' = a.status
             /\ call' = Made("send_alert", a.raised)
    /\ UNCHANGED <<listenerVars, configPort, portUp, procVars, snapshot, shared,
                   bufferVars, normVars, lockVars>>

\* get_serial_connection(), lines 111-125 (called at line 133)
CallGetConnection ==
    /\ \E e \in PortEnvs :
          LET g == get_serial_connection(e)
          IN /\ ser' = g.ser
             /\ is_open' = g.is_open
             /\ status' = g.status
             /\ call' = Made("get_serial_connection", g.raised)
    /\ UNCHANGED <<listenerVars, configPort, portUp, procVars, snapshot, shared,
                   bufferVars, normVars, lockVars>>

\* connection.close() by the holder of the returned handle (lines 163, 172)
CallClose ==
    /\ ser # 0 /\ is_open[ser]
    /\ is_open' = Close(ser, TRUE)
    /\ call' = Made("close", FALSE)
    /\ UNCHANGED <<listenerVars, ser, status, configPort, portUp, procVars,
                   snapshot, shared, bufferVars, normVars, lockVars>>

\* the parsed objects the status is given here: one of RawPayloads
StatusPayloads == {raw \in RawPayloads : raw.distance_cm = JInt(50)}

\* lines 146 and 156, in the read loop on an open connection: data is the
\* object json.loads just built, so no snapshot taken before holds it
CallSetLastJson ==
    /\ ser # 0 /\ is_open[ser]
    /\ \E raw \in StatusPayloads :
          status' = SetStatus([last_line |-> Some("{json}"),
                               last_json |-> Some(raw)])
    /\ shared' = FALSE
    /\ call' = Made("set_status", FALSE)
    /\ UNCHANGED <<listenerVars, ser, is_open, configPort, portUp, procVars,
                   snapshot, bufferVars, normVars, lockVars>>

\* a request thread calls get_serial_status() and keeps the returned dict
CallGetStatus ==
    /\ snapshot = None
    /\ snapshot' = Some(get_serial_status)
    /\ shared' = (status.last_json # None)
    /\ call' = Made("get_serial_status", FALSE)
    /\ UNCHANGED <<listenerVars, serialVars, configPort, portUp, procVars,
                   bufferVars, normVars, lockVars>>

\* the caller assigns a key of the returned dict:
\* snapshot["last_error"] = "edited"
MutateKey ==
    /\ snapshot # None
    /\ snapshot' = Some([TheVal(snapshot) EXCEPT !.last_error = Some("edited")])
    /\ call' = Made("mutate", FALSE)
    /\ UNCHANGED <<listenerVars, serialVars, configPort, portUp, procVars,
                   shared, bufferVars, normVars, lockVars>>

\* the caller assigns a key of the nested sample:
\* snapshot["last_json"]["distance_cm"] = 0; the object is changed in place,
\* for every dict that holds it
MutateSample ==
    /\ snapshot # None
    /\ TheVal(snapshot).last_json # None
    /\ LET v == [TheVal(TheVal(snapshot).last_json) EXCEPT
                    !.distance_cm = JInt(0)]
       IN /\ snapshot' = Some([TheVal(snapshot) EXCEPT !.last_json = Some(v)])
          /\ status' = IF shared THEN [status EXCEPT !.last_json = Some(v)]
                       ELSE status
    /\ call' = Made("mutate", FALSE)
    /\ UNCHANGED <<listenerVars, ser, is_open, configPort, portUp, procVars,
                   shared, bufferVars, normVars, lockVars>>

NextTransport ==
    \/ CallSendAlert \/ CallGetConnection \/ CallClose \/ CallSetLastJson
    \/ CallGetStatus \/ MutateKey \/ MutateSample \/ PortChange

TransportSpec == Init /\ [][NextTransport]_vars

----------------------------------------------------------------------------
(* feature_engineering.py: a FeatureBuffer and the calls made on it.  A       *)
(* sample is [ts, distance_cm, rain_analog, float_status], ts in seconds and  *)
(* distance_cm in tenths.  A quotient the code computes in floating point is  *)
(* kept as the pair [num, den].                                               *)

\* the instants the clock is read at in this model: within the 3-minute window
\* of one another, past it, and past the 30-minute window and the 35 minutes
\* the deque is sized for
Times == {0, 60, 200, 2200}

\* the dicts build_features is called with
FeaturePayloads ==
    [distance_cm : {-10, 500}, rain_analog : {0, 500}, float_status : {0}]

Window3m == 180
Window5m == 300
RainPresent == 500
MicroMinutes == 1000000

\* FeatureBuffer._window_from(samples, seconds, now_ts)
window_from(q, seconds, now_ts) ==
    SelectSeq(q, LAMBDA x : x.ts >= now_ts - seconds)

RECURSIVE SumOf(_, _)
\* sum(s[field] for s in q)
SumOf(q, field) ==
    IF q = <<>> THEN 0 ELSE q[1][field] + SumOf(Tail(q), field)

\* _mean(values): sum / len, and 0.0 for no value
mean(q, field) ==
    IF q = <<>> THEN [num |-> 0, den |-> 1]
    ELSE [num |-> SumOf(q, field), den |-> Len(q)]

\* rise_rate with the sample just appended taken for prev: the difference of
\* the new distance with itself
rise_rate_AgainstCurrent(prev, distance_cm, now_ts) == [num |-> 0, den |-> 1]

\* lines 85-88: (prev.distance_cm - distance_cm) / dt_min in tenths of a
\* centimetre per minute, dt_min = max((now_ts - prev.ts) / 60.0, 1e-6)
rise_rate(prev, distance_cm, now_ts) ==
    IF prev = None THEN [num |-> 0, den |-> 1]
    ELSE LET p == TheVal(prev)
             dt == now_ts - p.ts
         IN IF dt >= 1
            THEN [num |-> (p.distance_cm - distance_cm) * 60, den |-> dt]
            ELSE [num |-> (p.distance_cm - distance_cm) * MicroMinutes,
                  den |-> 1]

\* the episode start moved to every rain-present sample
rain_start_after_Restarts(rain_start_ts, rain_analog, now_ts) ==
    IF rain_analog >= RainPresent THEN Some(now_ts) ELSE None

\* lines 108-112: the rain-episode start after this sample
rain_start_after(rain_start_ts, rain_analog, now_ts) ==
    IF rain_analog >= RainPresent
    THEN (IF rain_start_ts = None THEN Some(now_ts) ELSE rain_start_ts)
    ELSE None

\* lines 77-118: the features, from the locals the lines above have set
compute_features(prev, samples_for_calc, rs, raw, now_ts) ==
    [rise_rate_cm_per_min |-> rise_rate(prev, raw.distance_cm, now_ts),
     distance_rolling_mean_3min |->
         mean(window_from(samples_for_calc, Window3m, now_ts), "distance_cm"),
     rain_trend_5min |->
         mean(window_from(samples_for_calc, Window5m, now_ts), "rain_analog"),
     time_since_rain_start |-> IF rs = None THEN 0 ELSE now_ts - TheVal(rs)]

\* build_features that appends whatever update_state says
build_features_AlwaysAppends(b, raw, now_ts, update_state) ==
    LET current == [ts |-> now_ts, distance_cm |-> raw.distance_cm,
                    rain_analog |-> raw.rain_analog,
                    float_status |-> raw.float_status]
        prev == IF b.samples = <<>> THEN None
                ELSE Some(b.samples[Len(b.samples)])
        samples_for_calc == DequeAppend(b.samples, current)
        rs == rain_start_after(b.rain_start_ts, raw.rain_analog, now_ts)
    IN [raised |-> FALSE,
        fb |-> [samples |-> samples_for_calc,
                rain_start_ts |-> IF update_state THEN rs ELSE b.rain_start_ts],
        features |->
          [rise_rate_cm_per_min |-> rise_rate(prev, raw.distance_cm, now_ts),
           distance_rolling_mean_3min |->
               mean(window_from(samples_for_calc, Window3m, now_ts),
                    "distance_cm"),
           rain_trend_5min |->
               mean(window_from(samples_for_calc, Window5m, now_ts),
                    "rain_analog"),
           time_since_rain_start |->
               IF rs = None THEN 0 ELSE now_ts - TheVal(rs)]]

\* FeatureBuffer.build_features(raw, update_state=...) on the buffer b at
\* clock reading now_ts: whether it raised, the buffer afterwards, and the
\* returned rise_rate_cm_per_min, distance_rolling_mean_3min, rain_trend_5min
\* and time_since_rain_start (in seconds).  raw holds numbers, so float() and
\* int() of lines 59-61 do not raise, and no line tests the sign of
\* distance_cm.
build_features(b, raw, now_ts, update_state) ==
    LET current == [ts |-> now_ts, distance_cm |-> raw.distance_cm,
                    rain_analog |-> raw.rain_analog,
                    float_status |-> raw.float_status]
        prev == IF b.samples = <<>> THEN None
                ELSE Some(b.samples[Len(b.samples)])
        samples_for_calc == IF update_state THEN DequeAppend(b.samples, current)
                            ELSE Append(b.samples, current)
        rs == rain_start_after(b.rain_start_ts, raw.rain_analog, now_ts)
    IN [raised |-> FALSE,
        fb |-> [samples |-> IF update_state THEN samples_for_calc
                            ELSE b.samples,
                rain_start_ts |-> IF update_state THEN rs ELSE b.rain_start_ts],
        features |-> compute_features(prev, samples_for_calc, rs, raw, now_ts)]

\* time passes between two calls
Tick ==
    /\ \E t \in Times : t > now /\ now' = t
    /\ UNCHANGED <<listenerVars, serialVars, configPort, portUp, procVars,
                   callerVars, normVars, lockVars, fb, built>>

\* a call fb.build_features(raw, update_state=u); built keeps the arguments,
\* the number of samples retained before the call and the outcome
BuildFeatures ==
    /\ \E raw \in FeaturePayloads, u \in BOOLEAN :
          LET r == build_features(fb, raw, now, u)
          IN /\ fb' = r.fb
             /\ built' = [update_state |-> u, raw |-> raw,
                          before |-> Len(fb.samples), raised |-> r.raised,
                          features |-> r.features, seq |-> 1 - built.seq]
    /\ UNCHANGED <<listenerVars, serialVars, configPort, portUp, procVars,
                   callerVars, normVars, lockVars, now>>

NextFeature == Tick \/ BuildFeatures

\* the buffer as constructed; the serial settings play no part here
FeatureInit == Init /\ configPort = None /\ ~portUp

FeatureSpec == FeatureInit /\ [][NextFeature]_vars

----------------------------------------------------------------------------
(* normalize_sensor_payload as a function of its argument *)

\* the values a key of the raw dict is given: absent, null, a text, a text
\* spelling a decimal, integers and floats on both sides of each threshold
DistanceValues == {Absent, Null, Str, JInt(-5), JInt(0), JFlt(123)}
HeightValues == {Absent, Null, JInt(40)}
RainValues == {Absent, Null, DecStr(75), JInt(-3), JInt(0), JInt(1023),
               JInt(1024), JFlt(-5), JFlt(10235), JFlt(127)}
LegacyRainValues == {Absent, Str, JInt(2000)}
FloatValues == {Absent, Null, JInt(0), JInt(1), JInt(2), JInt(-1), JFlt(5),
                JFlt(27)}
LegacyFloatValues == {Absent, Null, JInt(1)}

NormInputs ==
    {Obj(d, h, ra, r, fs, f) :
        d \in DistanceValues, h \in HeightValues, ra \in RainValues,
        r \in LegacyRainValues, fs \in FloatValues, f \in LegacyFloatValues}

\* a caller comes to hold a raw dict, which it has not normalized yet
Receive ==
    /\ received = NoObj
    /\ normalized = None
    /\ \E raw \in NormInputs : received' = raw
    /\ normalized' = None
    /\ UNCHANGED <<listenerVars, serialVars, configPort, portUp, procVars,
                   callerVars, lockVars, bufferVars>>

\* normalized = normalize_sensor_payload(raw)
Normalize ==
    /\ normalized = None
    /\ normalized' = Some(normalize_sensor_payload(received))
    /\ UNCHANGED <<listenerVars, serialVars, configPort, portUp, procVars,
                   callerVars, lockVars, bufferVars, received>>

NextNormalize == Receive \/ Normalize

NormalizeSpec == FeatureInit /\ [][NextNormalize]_vars

----------------------------------------------------------------------------
(* The two locks: the listener thread and a request thread inside
   build_features, _set_status and get_serial_status, line by line *)

At(t, label) == tpc[t] = label
Goto(t, label) == tpc' = [tpc EXCEPT ![t] = label]

\* the keys of _status, in the order the dict holds them
StatusKeys == <<"connected", "port", "last_line", "last_json", "last_error">>

\* the first key of _status, in its order, that is in the set keys
FirstKey(keys) ==
    StatusKeys[CHOOSE i \in DOMAIN StatusKeys :
                  /\ StatusKeys[i] \in keys
                  /\ \A j \in 1..(i - 1) : StatusKeys[j] \notin keys]

\* the keyword arguments of the listener's _set_status calls at lines 95-101,
\* 106 and 160
StatusUpdates ==
    { [connected |-> TRUE, port |-> Some("COM3"), last_error |-> None],
      [connected |-> FALSE, port |-> Some("COM3"),
       last_error |-> Some("could not open port")],
      [connected |-> FALSE, last_error |-> Some("read failed")] }

\* build_features entered with the lock known to no caller
BuildEnter_NoLock(t) ==
    /\ At(t, "idle")
    /\ \E raw \in FeaturePayloads :
          frame' = [frame EXCEPT ![t] =
                      [NoFrame EXCEPT !.raw = raw,
                                      !.update_state = (t = "listener"),
                                      !.entry = fb,
                                      !.now_ts = now]]
    /\ featLock' = Some(t)
    /\ Goto(t, "b66")
    /\ UNCHANGED <<listenerVars, serialVars, configPort, portUp, procVars,
                   callerVars, normVars, bufferVars, statLock, whole>>

\* lines 54-56: `with self._lock`, entered when no thread holds the lock, and
\* the reading of the clock; the listener persists (ml_engine.py line 56), a
\* request does not (main.py line 323)
BuildEnterWith(t, payloads) ==
    /\ At(t, "idle")
    /\ featLock = None
    /\ \E raw \in payloads :
          frame' = [frame EXCEPT ![t] =
                      [NoFrame EXCEPT !.raw = raw,
                                      !.update_state = (t = "listener"),
                                      !.entry = fb,
                                      !.now_ts = now]]
    /\ featLock' = Some(t)
    /\ Goto(t, "b66")
    /\ UNCHANGED <<listenerVars, serialVars, configPort, portUp, procVars,
                   callerVars, normVars, bufferVars, statLock, whole>>

\* the call with any of the payloads of FeatureSpec
BuildEnter(t) == BuildEnterWith(t, FeaturePayloads)

\* line 66: prev
BuildPrev(t) ==
    /\ At(t, "b66")
    /\ frame' = [frame EXCEPT ![t].prev =
                    IF fb.samples = <<>> THEN None
                    ELSE Some(fb.samples[Len(fb.samples)])]
    /\ Goto(t, "b67")
    /\ UNCHANGED <<listenerVars, serialVars, configPort, portUp, procVars,
                   callerVars, normVars, bufferVars, statLock, featLock, whole>>

\* lines 67-68: samples_snapshot and rain_start_ts
BuildSnapshot(t) ==
    /\ At(t, "b67")
    /\ frame' = [frame EXCEPT ![t].samples_snapshot = fb.samples,
                              ![t].rain_start_ts = fb.rain_start_ts]
    /\ Goto(t, "b70")
    /\ UNCHANGED <<listenerVars, serialVars, configPort, portUp, procVars,
                   callerVars, normVars, bufferVars, statLock, featLock, whole>>

\* lines 63 and 70-75: the append, or the list made for this call only
BuildAppend(t) ==
    /\ At(t, "b70")
    /\ LET f == frame[t]
           current == [ts |-> f.now_ts, distance_cm |-> f.raw.distance_cm,
                       rain_analog |-> f.raw.rain_analog,
                       float_status |-> f.raw.float_status]
       IN IF f.update_state
          THEN /\ fb' = [fb EXCEPT !.samples = DequeAppend(@, current)]
               /\ frame' = [frame EXCEPT ![t].samples_for_calc = fb'.samples]
          ELSE /\ fb' = fb
               /\ frame' = [frame EXCEPT ![t].samples_for_calc =
                               Append(f.samples_snapshot, current)]
    /\ Goto(t, "b77")
    /\ UNCHANGED <<listenerVars, serialVars, configPort, portUp, procVars,
                   callerVars, normVars, now, built, statLock, featLock, whole>>

\* lines 77-118: the features, and the episode start stored when persisting
BuildCompute(t) ==
    /\ At(t, "b77")
    /\ LET f == frame[t]
           rs == rain_start_after(f.rain_start_ts, f.raw.rain_analog, f.now_ts)
       IN /\ fb' = IF f.update_state THEN [fb EXCEPT !.rain_start_ts = rs]
                   ELSE fb
          /\ frame' = [frame EXCEPT ![t].features =
                          compute_features(f.prev, f.samples_for_calc, rs,
                                           f.raw, f.now_ts)]
    /\ Goto(t, "b124")
    /\ UNCHANGED <<listenerVars, serialVars, configPort, portUp, procVars,
                   callerVars, normVars, now, built, statLock, featLock, whole>>

\* lines 124-136: the return, which leaves the `with` block
BuildReturn(t) ==
    /\ At(t, "b124")
    /\ frame' = [frame EXCEPT ![t] = NoFrame]
    /\ featLock' = None
    /\ Goto(t, "idle")
    /\ UNCHANGED <<listenerVars, serialVars, configPort, portUp, procVars,
                   callerVars, normVars, bufferVars, statLock, whole>>

\* _set_status entered by the listener from inside build_features, with
\* FEATURE_BUFFER._lock still held
SetStatusEnter_Nested ==
    /\ tpc["listener"] \in {"idle", "b77"}
    /\ statLock = None
    /\ \E kwargs \in StatusUpdates :
          frame' = [frame EXCEPT !["listener"].kwargs = kwargs]
    /\ statLock' = Some("listener")
    /\ Goto("listener", "s77")
    /\ UNCHANGED <<listenerVars, serialVars, configPort, portUp, procVars,
                   callerVars, normVars, bufferVars, featLock, whole>>

\* lines 75-76: the listener enters _set_status(**kwargs) and takes _lock
SetStatusEnter ==
    /\ At("listener", "idle")
    /\ statLock = None
    /\ \E kwargs \in StatusUpdates :
          frame' = [frame EXCEPT !["listener"].kwargs = kwargs]
    /\ statLock' = Some("listener")
    /\ Goto("listener", "s77")
    /\ UNCHANGED <<listenerVars, serialVars, configPort, portUp, procVars,
                   callerVars, normVars, bufferVars, featLock, whole>>

\* line 77: _status.update(kwargs) stores one key
SetStatusWrite ==
    /\ At("listener", "s77")
    /\ DOMAIN frame["listener"].kwargs # {}
    /\ LET kwargs == frame["listener"].kwargs
           key == FirstKey(DOMAIN kwargs)
       IN /\ status' = [status EXCEPT ![key] = kwargs[key]]
          /\ frame' = [frame EXCEPT !["listener"].kwargs =
                          [k \in DOMAIN kwargs \ {key} |-> kwargs[k]]]
    /\ UNCHANGED <<listenerVars, ser, is_open, configPort, portUp, procVars,
                   callerVars, normVars, bufferVars, statLock, featLock, tpc,
                   whole>>

\* line 77 done: the `with` block is left
SetStatusExit ==
    /\ At("listener", "s77")
    /\ DOMAIN frame["listener"].kwargs = {}
    /\ frame' = [frame EXCEPT !["listener"] = NoFrame]
    /\ whole' = whole \cup {status}
    /\ statLock' = None
    /\ Goto("listener", "idle")
    /\ UNCHANGED <<listenerVars, serialVars, configPort, portUp, procVars,
                   callerVars, normVars, bufferVars, featLock>>

\* get_serial_status entered with the lock known to no caller
GetStatusEnter_NoLock ==
    /\ At("request", "idle")
    /\ statLock' = Some("request")
    /\ Goto("request", "g72")
    /\ UNCHANGED <<listenerVars, serialVars, configPort, portUp, procVars,
                   callerVars, normVars, bufferVars, featLock, frame, whole>>

\* lines 70-71: a request enters get_serial_status() and takes _lock
GetStatusEnter ==
    /\ At("request", "idle")
    /\ statLock = None
    /\ statLock' = Some("request")
    /\ Goto("request", "g72")
    /\ UNCHANGED <<listenerVars, serialVars, configPort, portUp, procVars,
                   callerVars, normVars, bufferVars, featLock, frame, whole>>

\* line 72: dict(_status) copies one key
GetStatusCopy ==
    /\ At("request", "g72")
    /\ DOMAIN frame["request"].copy # DOMAIN status
    /\ LET copy == frame["request"].copy
           key == FirstKey(DOMAIN status \ DOMAIN copy)
       IN frame' = [frame EXCEPT !["request"].copy =
                       [k \in DOMAIN copy \cup {key} |->
                           IF k = key THEN status[key] ELSE copy[k]]]
    /\ UNCHANGED <<listenerVars, serialVars, configPort, portUp, procVars,
                   callerVars, normVars, bufferVars, statLock, featLock, tpc,
                   whole>>

\* line 72: the copy is returned and the `with` block is left
GetStatusReturn ==
    /\ At("request", "g72")
    /\ DOMAIN frame["request"].copy = DOMAIN status
    /\ snapshot' = Some(frame["request"].copy)
    /\ frame' = [frame EXCEPT !["request"] = NoFrame]
    /\ statLock' = None
    /\ Goto("request", "idle")
    /\ UNCHANGED <<listenerVars, serialVars, configPort, portUp, procVars,
                   call, shared, normVars, bufferVars, featLock, whole>>

\* the two threads in build_features, and the clock
NextBufferLock ==
    \/ Tick
    \/ \E t \in Threads :
          \/ BuildEnter(t)
          \/ BuildPrev(t)
          \/ BuildSnapshot(t)
          \/ BuildAppend(t)
          \/ BuildCompute(t)
          \/ BuildReturn(t)

BufferLockSpec == FeatureInit /\ [][NextBufferLock]_vars

\* the listener in _set_status and a request in get_serial_status
NextStatusLock ==
    \/ SetStatusEnter
    \/ SetStatusWrite
    \/ SetStatusExit
    \/ GetStatusEnter
    \/ GetStatusCopy
    \/ GetStatusReturn

StatusLockSpec == FeatureInit /\ [][NextStatusLock]_vars

\* the payload of the calls made where only the locks matter
LockPayloads ==
    {[distance_cm |-> 500, rain_analog |-> 500, float_status |-> 0]}

\* both threads in any of the three locked functions: a thread is in one
\* function at a time, since build_features calls nothing of serial_reader
\* and _set_status and get_serial_status call nothing of the FeatureBuffer
NextBothLocks ==
    \/ \E t \in Threads :
          \/ BuildEnterWith(t, LockPayloads)
          \/ BuildPrev(t)
          \/ BuildSnapshot(t)
          \/ BuildAppend(t)
          \/ BuildCompute(t)
          \/ BuildReturn(t)
    \/ SetStatusEnter
    \/ SetStatusWrite
    \/ SetStatusExit
    \/ GetStatusEnter
    \/ GetStatusCopy
    \/ GetStatusReturn

BothLocksSpec == FeatureInit /\ [][NextBothLocks]_vars

----------------------------------------------------------------------------
(* Properties *)

Range(seq) == {seq[i] : i \in DOMAIN seq}
Count(seq, x) == Cardinality({i \in DOMAIN seq : seq[i] = x})

\* the alert commands the current invocation has requested, in order
Alerts == SelectSeq(events, LAMBDA x : x \in {"ALERT_ON", "ALERT_OFF"})

Decided == pc \in {"p_act", "p_store", "p_close"}
Actuated == pc \in {"p_store", "p_close"}
Stored == pc = "p_close" /\ "add" \in Range(events)
StoreWorked == Stored /\ "raised" \notin Range(events)

\* C1: once the decision is taken for a payload whose normalized float_status
\* is 1, risk is 2 and prob is 1.0 and the classifier has not been called in
\* this invocation, whatever errors normalization reported and whatever the
\* state of the model files.
C1_FloatOverride ==
    (Decided /\ normalize_sensor_payload(data).payload.float_status = 1)
        => /\ risk = Some(2)
           /\ prob = Some(100)
           /\ "predict" \notin Range(events)

\* C1 witness: the override taken for a payload with normalization errors
\* while no model is loaded
C1_Witness ==
    /\ pc = "p_act"
    /\ payload.float_status = 1
    /\ errors # <<>>
    /\ ~modelLoaded
    /\ risk = Some(2)

C3_OneRecord ==
    /\ pc = "p_close" => Count(events, "add") = 1
    /\ StoreWorked =>
          /\ Len(rows) = 1
          /\ rows[1].distance_cm = normalize_sensor_payload(data).payload.distance_cm
          /\ rows[1].rain_analog = normalize_sensor_payload(data).payload.rain_analog
          /\ rows[1].float_status = normalize_sensor_payload(data).payload.float_status
    /\ ~StoreWorked => rows = <<>>

\* C3 witness: a record committed after a failed classification and a failed
\* command write
C3_Witness ==
    /\ StoreWorked
    /\ Len(rows) = 1
    /\ err # None /\ risk = None
    /\ status.last_error = Some("write failed")

\* the classifier was called in this invocation and failed
ClassifierFailed == "predict" \in Range(events) /\ err # None

C5_ProcessNeverRaises ==
    pc = "except" =>
        exc \notin {Some("session failed"), Some("session close failed")}

\* C6: when the explanation service failed in an invocation, the explanation
\* is None, ALERT_ON is requested and the sample is stored with no explanation.
C6_ExplanationFailure ==
    (Actuated /\ llm # None /\ llm \subseteq LlmFailures) =>
        /\ explanation = None
        /\ Alerts = <<"ALERT_ON">>
        /\ StoreWorked => (Len(rows) = 1 /\ rows[1].explanation = None)

\* C7: the decision for a payload with float switch unset and at least one
\* normalization error does not call the classifier, leaves the Feature
\* Window and the classifier's state as they were, leaves risk and prob unset
\* and sets err to "payload_errors=" followed by every reported code.
C7_ErrorsSkipClassifier ==
    [][(/\ pc = "p_decide"
        /\ pc' = "p_act"
        /\ normalize_sensor_payload(data).errors # <<>>
        /\ normalize_sensor_payload(data).payload.float_status = 0)
       => /\ "predict" \notin Range(events')
          /\ samples' = samples
          /\ modelLoaded' = modelLoaded /\ meta' = meta
          /\ risk' = None /\ prob' = None
          /\ err' # None
          /\ \A e \in err' :
                /\ e[1] = "payload_errors="
                /\ Range(normalize_sensor_payload(data).errors) \subseteq Range(e)
      ]_vars

\* C7 witness: classification skipped, with a sample already in the window
C7_Witness ==
    /\ pc = "p_act"
    /\ payload.float_status = 0
    /\ "invalid_distance" \in Range(errors)
    /\ risk = None
    /\ samples # <<>>

\* the listener is reading lines or running the pipeline
InReadLoop ==
    pc \in {"inner", "read", "p_session", "p_decide", "p_act", "p_store", "p_close"}

\* C8: after a failure in the read loop the status is connected = False with
\* the error text; the listener enters the read loop again only after it has
\* looked for a port anew, and then with connected = True and last_error unset
\* by the reconnect.
C8_ReadFailureReconnects ==
    /\ (pc = "sleep" /\ failPending) =>
          (~status.connected /\ status.last_error # None)
    /\ InReadLoop => ~failPending

\* C9: once stop_serial_listener has been called for the started thread, the
\* thread eventually leaves start_serial_listener.
C9_StopExits ==
    stopCalled ~> (pc \in {"stopped", "crashed"})

\* C10: every wait is SERIAL_CONNECT_RETRY_SECONDS; with no stop requested and
\* the port resolvable and openable from some point on, a listener thread that
\* is alive reaches connected = True again and again.
C10_RetryReconnects ==
    /\ [](lastWait \subseteq {2})
    /\ []<>(~portUp \/ stopCalled \/ pc = "crashed" \/ status.connected)

\* C11: the listener thread is out of its loop only after a stop was requested
\* (the stop event is set), whatever failed in port enumeration, opening,
\* reading or processing; and whenever it waits after a failure the status is
\* disconnected.
C11_LoopEndsOnlyOnStop ==
    /\ pc \in {"stopped", "crashed"} => stop_event
    /\ pc = "sleep" => ~status.connected

\* C13: a send_alert whose write failed returns normally into the pipeline
\* (which goes on to the store) and changes nothing but status.last_error:
\* connected, the other status fields, _ser and the handle's open state are as
\* before; and wherever the listener is in its read loop it holds an open
\* connection, the one the manager holds.
C13_FailedWrite ==
    [][/\ (/\ pc = "p_act" /\ events' # events
           /\ status'.last_error = Some("write failed"))
          => /\ pc' = "p_store"
             /\ status' = [status EXCEPT !.last_error = Some("write failed")]
             /\ ser' = ser /\ is_open' = is_open /\ connection' = connection
       /\ InReadLoop' => /\ connection' # 0
                         /\ is_open'[connection']
                         /\ ser' = connection'
      ]_vars

\* C13 witness: a failed write recorded while the status reports connected, the
\* pipeline at the store and the connection still open
C13_Witness ==
    /\ pc = "p_store"
    /\ status.last_error = Some("write failed")
    /\ status.connected
    /\ connection # 0 /\ is_open[connection]

\* the listener is inside a call of process_sensor_data
InPipeline == pc \in {"p_session", "p_decide", "p_act", "p_store", "p_close"}

\* C15: process_sensor_data is entered only by the read that received a parsed
\* object, once, with that object and with no other invocation in progress; a
\* read that does not enter it received no object; and no line is read while an
\* invocation is running: the read position is reached only from the loop test
\* with the previous invocation returned.
C15_OneAtATime ==
    [][/\ (pc' = "p_session" /\ pc # "p_session") =>
             /\ pc = "read"
             /\ status'.last_json # None
             /\ data' = TheVal(status'.last_json)
             /\ db = "none" /\ events = <<>> /\ rows = <<>>
       /\ (pc = "read" /\ pc' # "p_session") =>
             /\ status'.last_json = status.last_json
             /\ data' = data
       /\ (InPipeline /\ pc' # pc) =>
             /\ pc' \in {"p_decide", "p_act", "p_store", "p_close", "inner", "except"}
             /\ pc' \in {"inner", "except"} => data' = NoObj
       /\ (pc' = "read" /\ pc # "read") =>
             /\ pc = "inner"
             /\ data = NoObj /\ db = "none"
      ]_vars

\* C15 witness: a second object handed to the pipeline after an earlier one
\* was classified and its invocation returned
C15_Witness ==
    /\ pc = "p_session"
    /\ data = TheVal(status.last_json)
    /\ samples # <<>>
    /\ events = <<>>

\* C16: a read that raised nothing and left a skipped line as last_line changed
\* no other status field, did not enter the pipeline, kept the connection and
\* went back to the loop test for the next read.
C16_NoiseSkipped ==
    [][(/\ pc = "read" /\ pc' # pc
        /\ exc' = None
        /\ status'.last_line # None
        /\ status'.last_line \subseteq NoiseLines)
       => /\ pc' = "inner"
          /\ status' = [status EXCEPT !.last_line = status'.last_line]
          /\ UNCHANGED procVars
          /\ connection' = connection /\ ser' = ser /\ is_open' = is_open
      ]_vars

\* C16 witness: a line in braces that does not parse, skipped after an object
\* had been parsed, the status still connected with that object as last_json
C16_Witness ==
    /\ pc = "inner"
    /\ status.last_line = Some("{not json}")
    /\ status.last_json # None
    /\ status.connected
    /\ status.last_error = None

\* some enumerated list holds the device and no port of that list scores higher
HighestScoring(device) ==
    \E L \in PortLists : \E i \in DOMAIN L :
        /\ L[i].device = device
        /\ \A j \in DOMAIN L :
              Cardinality(L[j].words \cap Keywords)
                  <= Cardinality(L[i].words \cap Keywords)

\* C17: a port recorded by a resolution is the configured port when one is
\* set, and otherwise an enumerated port of the highest keyword score; a
\* resolution that returns having found no port opens nothing (the listener
\* gets no connection, _ser and the handles are as before), leaves the status at
\* connected = False, port = None with the reason in last_error, and sends the
\* listener to its wait, which lasts the retry interval and leads back to the
\* loop test before the next resolution.
C17_PortResolution ==
    [][/\ (status'.port # status.port /\ status'.port # None) =>
             IF configPort # None THEN status'.port = configPort
             ELSE HighestScoring(TheVal(status'.port))
       /\ (/\ pc = "getconn" /\ pc' \notin {pc, "crashed"}
           /\ status'.last_error = Some("No serial ports detected")) =>
             /\ configPort = None
             /\ connection' = 0 /\ ser' = ser /\ is_open' = is_open
             /\ ~status'.connected /\ status'.port = None
             /\ pc' = "sleep"
       /\ (pc = "sleep" /\ pc' # pc) =>
             /\ pc' = "outer"
             /\ lastWait' = Some(SERIAL_CONNECT_RETRY_SECONDS)
       /\ (pc' = "getconn" /\ pc' # pc) => pc = "outer"
      ]_vars

\* C17 witness: no port configured; after a wait, the highest-scoring port of
\* the enumerated list was opened
C17_Witness ==
    /\ configPort = None
    /\ lastWait # None
    /\ status.connected
    /\ status.port = Some("ttyUSB0")

\* C12: a send_alert called while the manager holds no open connection does
\* not raise and leaves the status, _ser and every handle as they were (no
\* port is resolved or opened).
C12_NoConnectionDrops ==
    [][(/\ call'.seq # call.seq
        /\ call'.op = "send_alert"
        /\ (ser = 0 \/ ~is_open[ser]))
       => /\ ~call'.raised
          /\ status' = status
          /\ ser' = ser
          /\ is_open' = is_open
      ]_vars

\* C14: no mutation a caller makes to a dict returned by get_serial_status,
\* the nested last parsed sample included, changes the manager's status.
C14_SnapshotIsolated ==
    [][(call'.seq # call.seq /\ call'.op = "mutate") => status' = status]_vars

\* a build_features call is made in this step
Builds == built'.seq # built.seq

\* C18: a build_features call with update_state=False leaves the buffer as it
\* was, the retained samples and the rain-episode start alike, so a call made
\* after it returns what it would have returned without it.
C18_NoPersistNoChange ==
    [][(Builds /\ ~built'.update_state) =>
          /\ fb'.samples = fb.samples
          /\ fb'.rain_start_ts = fb.rain_start_ts
          /\ \A raw \in FeaturePayloads, u \in BOOLEAN :
                build_features(fb', raw, now', u) = build_features(fb, raw, now', u)
      ]_vars

\* C18 witness: a non-persisting call with rain present made on a buffer that
\* holds a sample and no rain episode; its rise rate is computed against that
\* sample
C18_Witness ==
    /\ built.seq = 1
    /\ ~built.update_state
    /\ built.raw.rain_analog >= 500
    /\ built.features.rise_rate_cm_per_min.num # 0
    /\ Len(fb.samples) = 1
    /\ fb.rain_start_ts = None

\* C19: a build_features call with update_state=True that returns adds the
\* sample it was called with at the end of the retained samples; below the cap
\* the count grows by exactly one, at the cap the count stays and the oldest
\* sample is the one dropped.
C19_PersistAddsOne ==
    [][(Builds /\ built'.update_state /\ ~built'.raised) =>
          LET current == [ts |-> now, distance_cm |-> built'.raw.distance_cm,
                          rain_analog |-> built'.raw.rain_analog,
                          float_status |-> built'.raw.float_status]
          IN IF Len(fb.samples) < MaxSamples
             THEN /\ Len(fb'.samples) = Len(fb.samples) + 1
                  /\ fb'.samples = Append(fb.samples, current)
             ELSE /\ Len(fb'.samples) = MaxSamples
                  /\ fb'.samples = Append(Tail(fb.samples), current)
      ]_vars

\* C19 witness: a persisting call made at the cap; the sample taken at time 0
\* is gone and the new one is the last
C19_Witness ==
    /\ built.update_state
    /\ built.before = MaxSamples
    /\ Len(fb.samples) = MaxSamples
    /\ fb.samples[1].ts > 0
    /\ fb.samples[MaxSamples].ts = now

\* C20: a build_features call with a negative distance_cm raises and leaves
\* the retained samples and the rain-episode start as they were.
C20_NegativeDistanceRejected ==
    [][(Builds /\ built'.raw.distance_cm < 0) =>
          /\ built'.raised
          /\ fb' = fb
      ]_vars

\* C21: the rise rate a build_features call returns, whatever update_state, is
\* taken against the last sample retained before the call: positive when the
\* new distance is smaller than that sample's, negative when larger, zero when
\* equal, and 0.0 when no sample was retained.
C21_RiseRate ==
    [][Builds =>
          LET r == built'.features.rise_rate_cm_per_min
              d == built'.raw.distance_cm
          IN /\ r.den > 0
             /\ IF fb.samples = <<>> THEN r.num = 0
                ELSE LET last == fb.samples[Len(fb.samples)]
                     IN /\ d < last.distance_cm => r.num > 0
                        /\ d > last.distance_cm => r.num < 0
                        /\ d = last.distance_cm => r.num = 0
      ]_vars

\* C21 witness: a persisting call with a smaller distance than the sample
\* retained before it; the rise rate is positive and the new sample is now the
\* last retained
C21_Witness ==
    /\ built.update_state
    /\ built.before >= 1
    /\ built.features.rise_rate_cm_per_min.num > 0
    /\ fb.samples[Len(fb.samples)].distance_cm = built.raw.distance_cm

----------------------------------------------------------------------------
(* The normalizer, validation.py *)

\* the value the raw dict holds for a field: the one under its current name
\* when that name is present, else the one under its legacy name
RawValue(current, legacy) ==
    IF received[current].t # "absent" THEN received[current]
    ELSE received[legacy]

Returned == normalized # None

\* C22: every call of normalize_sensor_payload returns a payload with the keys
\* distance_cm, rain_analog and float_status; a field that is missing or
\* cannot be converted adds its error code (missing_distance, missing_rain,
\* missing_float_status) and takes its default (-1.0, 0, 0).
C22_MissingFields ==
    Returned =>
        LET n == TheVal(normalized)
            d == RawValue("distance_cm", "height")
            r == RawValue("rain_analog", "rain")
            f == RawValue("float_status", "float")
        IN /\ DOMAIN n.payload = {"distance_cm", "rain_analog", "float_status"}
           /\ d.t \notin {"int", "flt", "dstr"} =>
                 /\ "missing_distance" \in Range(n.errors)
                 /\ n.payload.distance_cm = -10
           /\ r.t \notin {"int", "flt"} =>
                 /\ "missing_rain" \in Range(n.errors)
                 /\ n.payload.rain_analog = 0
           /\ f.t \notin {"int", "flt"} =>
                 /\ "missing_float_status" \in Range(n.errors)
                 /\ n.payload.float_status = 0

\* a dict whose distance is a text, whose rain is a decimal text and which
\* has no float reading came back with the three codes and the three defaults
C22_Witness ==
    /\ Returned
    /\ received.distance_cm = Str
    /\ received.rain_analog = DecStr(75)
    /\ received.float_status = Absent /\ received.float = Absent
    /\ TheVal(normalized).errors =
          <<"missing_distance", "missing_rain", "missing_float_status">>
    /\ TheVal(normalized).payload =
          [distance_cm |-> -10, rain_analog |-> 0, float_status |-> 0]

ClampWarnings == {"rain_clamped_low", "rain_clamped_high"}

\* C23 as stated: the normalized rain_analog lies in [0, 1023]; a raw rain
\* value below 0 gives 0 with rain_clamped_low, one above 1023 gives 1023 with
\* rain_clamped_high, one in range is returned unchanged with no clamp warning.
C23_RawRainClamped ==
    Returned =>
        LET n == TheVal(normalized)
            r == RawValue("rain_analog", "rain")
            tenths == IF r.t = "int" THEN r.v * 10 ELSE r.v
        IN /\ n.payload.rain_analog \in 0..1023
           /\ r.t \in {"int", "flt"} =>
                 /\ tenths < 0 =>
                       /\ n.payload.rain_analog = 0
                       /\ "rain_clamped_low" \in Range(n.warnings)
                 /\ tenths > 10230 =>
                       /\ n.payload.rain_analog = 1023
                       /\ "rain_clamped_high" \in Range(n.warnings)
                 /\ tenths \in 0..10230 =>
                       /\ n.payload.rain_analog * 10 = tenths
                       /\ Range(n.warnings) \cap ClampWarnings = {}

\* C23: the normalized rain_analog lies in [0, 1023]; with the raw rain value
\* cut to its integer part, a part below 0 gives 0 with rain_clamped_low, one
\* above 1023 gives 1023 with rain_clamped_high, and one in range is returned
\* as it is with no clamp warning.
C23_IntegerPartClamped ==
    Returned =>
        LET n == TheVal(normalized)
            r == RawValue("rain_analog", "rain")
            part == IF r.t = "int" THEN r.v
                    ELSE IF r.v >= 0 THEN r.v \div 10 ELSE -((-r.v) \div 10)
        IN /\ n.payload.rain_analog \in 0..1023
           /\ r.t \in {"int", "flt"} =>
                 /\ part < 0 =>
                       /\ n.payload.rain_analog = 0
                       /\ "rain_clamped_low" \in Range(n.warnings)
                 /\ part > 1023 =>
                       /\ n.payload.rain_analog = 1023
                       /\ "rain_clamped_high" \in Range(n.warnings)
                 /\ part \in 0..1023 =>
                       /\ n.payload.rain_analog = part
                       /\ Range(n.warnings) \cap ClampWarnings = {}

\* a rain reading of -0.5 came back as 0 with no clamp warning
C23_Witness ==
    /\ Returned
    /\ received.rain_analog = JFlt(-5)
    /\ TheVal(normalized).payload.rain_analog = 0
    /\ Range(TheVal(normalized).warnings) \cap ClampWarnings = {}

\* C24: the normalized float_status is 0 or 1; a raw integer outside {0, 1} is
\* coerced to its truthiness with the warning float_status_coerced, and the
\* warning is there only when a value outside {0, 1} was coerced.
C24_FloatStatusCoerced ==
    Returned =>
        LET n == TheVal(normalized)
            f == RawValue("float_status", "float")
            warned == "float_status_coerced" \in Range(n.warnings)
        IN /\ n.payload.float_status \in {0, 1}
           /\ (f.t = "int" /\ f.v \notin {0, 1}) =>
                 /\ n.payload.float_status = 1
                 /\ warned
           /\ warned =>
                 /\ \/ f.t = "int" /\ f.v \notin {0, 1}
                    \/ f.t = "flt" /\ (f.v < 0 \/ f.v >= 20)
                 /\ n.payload.float_status = 1

\* a float_status of 2 came back as 1 with the warning
C24_Witness ==
    /\ Returned
    /\ received.float_status = JInt(2)
    /\ TheVal(normalized).payload.float_status = 1
    /\ "float_status_coerced" \in Range(TheVal(normalized).warnings)

\* the dict with every value moved from its legacy name to its current name
Renamed(raw) == Obj(raw.height, Absent, raw.rain, Absent, raw.float, Absent)

\* the dict without the legacy names whose current name is present
Unshadowed(raw) ==
    [raw EXCEPT
       !.height = IF raw.distance_cm.t # "absent" THEN Absent ELSE @,
       !.rain = IF raw.rain_analog.t # "absent" THEN Absent ELSE @,
       !.float = IF raw.float_status.t # "absent" THEN Absent ELSE @]

LegacyOnly(raw) ==
    /\ raw.distance_cm = Absent
    /\ raw.rain_analog = Absent
    /\ raw.float_status = Absent

\* C25: height, rain and float are aliases of distance_cm, rain_analog and
\* float_status: a dict with legacy names only normalizes as the same values
\* under the current names do, and where both names of a field are present
\* the value under the current name is the one used.
C25_LegacyAliases ==
    Returned =>
        LET n == TheVal(normalized)
        IN /\ LegacyOnly(received) =>
                 n = normalize_sensor_payload(Renamed(received))
           /\ n = normalize_sensor_payload(Unshadowed(received))
           /\ (received.distance_cm = Absent /\ received.height = JInt(40)) =>
                 n.payload.distance_cm = 400
           /\ (received.distance_cm = Null /\ received.height = JInt(40)) =>
                 n.payload.distance_cm = -10
           /\ (received.rain_analog = JInt(0) /\ received.rain = JInt(2000)) =>
                 n.payload.rain_analog = 0
           /\ (received.float_status = JInt(0) /\ received.float = JInt(1)) =>
                 n.payload.float_status = 0

\* both names of every field were present and the current names' values won
C25_Witness ==
    /\ Returned
    /\ received = Obj(JInt(0), JInt(40), JInt(0), JInt(2000), JInt(0), JInt(1))
    /\ TheVal(normalized).payload =
          [distance_cm |-> 0, rain_analog |-> 0, float_status |-> 0]
    /\ TheVal(normalized).warnings = <<>>

----------------------------------------------------------------------------
(* The pipeline's order of steps, processor.py and ml_engine.py *)

\* C26: the decision for a sample with float switch unset and no normalization
\* error appends that sample to the Feature Window, one sample per invocation,
\* whether or not the classifier then succeeds, also when the model or its
\* metadata cannot be loaded.
C26_ClassifiedSampleRetained ==
    [][(/\ pc = "p_decide"
        /\ pc' = "p_act"
        /\ normalize_sensor_payload(data).errors = <<>>
        /\ normalize_sensor_payload(data).payload.float_status = 0)
       => /\ samples' # <<>>
          /\ samples'[Len(samples')] = payload'
          /\ Len(samples') = IF Len(samples) < MaxSamples
                             THEN Len(samples) + 1 ELSE MaxSamples
          /\ \A i \in 1..(Len(samples') - 1) :
                samples'[i] = samples[i + Len(samples) + 1 - Len(samples')]
      ]_vars

\* C27: in an invocation for a high-risk sample the ALERT_ON command is
\* requested before the explanation service is called.
C27_AlertBeforeExplanation ==
    \A i, j \in DOMAIN events :
        (events[i] = "explain" /\ events[j] = "ALERT_ON") => j < i

----------------------------------------------------------------------------
(* The rain episode, feature_engineering.py lines 106-118 *)

\* the most recent persisted sample of a buffer, None when there is none; the
\* deque never drops its newest sample
LastPersisted(b) ==
    IF b.samples = <<>> THEN None ELSE Some(b.samples[Len(b.samples)])

RainSeen(s) == s # None /\ TheVal(s).rain_analog >= 500

\* C28: after every build_features call the stored episode start is set iff
\* the most recent persisted sample had rain_analog >= 500; a persisted
\* rain-present sample that follows a rainless one (or none) starts a run and
\* the start is its timestamp, one that follows a rain-present sample leaves
\* the start where it was; the returned time_since_rain_start is 0 when the
\* current sample has no rain; a non-persisting call leaves the stored start
\* as it was.
C28_RainEpisode ==
    [][Builds =>
          LET raining == built'.raw.rain_analog >= 500
              last == LastPersisted(fb)
              last1 == LastPersisted(fb')
          IN /\ (fb'.rain_start_ts # None) <=> RainSeen(last1)
             /\ (built'.update_state /\ raining /\ ~RainSeen(last)) =>
                   fb'.rain_start_ts = Some(TheVal(last1).ts)
             /\ (built'.update_state /\ raining /\ RainSeen(last)) =>
                   /\ fb'.rain_start_ts = fb.rain_start_ts
                   /\ TheVal(fb.rain_start_ts) <= TheVal(last).ts
             /\ ~raining => built'.features.time_since_rain_start = 0
             /\ ~built'.update_state => fb'.rain_start_ts = fb.rain_start_ts
      ]_vars

\* a run of rain-present samples longer than the buffer: the episode start is
\* the timestamp of a sample no longer retained, and the time since then was
\* returned
C28_Witness ==
    /\ built.update_state
    /\ fb.rain_start_ts = Some(0)
    /\ Len(fb.samples) = MaxSamples
    /\ \A i \in DOMAIN fb.samples :
          fb.samples[i].ts > 0 /\ fb.samples[i].rain_analog >= 500
    /\ built.features.time_since_rain_start = now

----------------------------------------------------------------------------
(* The locks, feature_engineering.py line 55 and serial_reader.py lines 70-77 *)

\* thread t leaves build_features in this step
Returns(t) == tpc[t] = "b124" /\ tpc'[t] = "idle"

C30_WholeSnapshots ==
    [][(tpc["request"] = "g72" /\ tpc'["request"] = "idle") =>
          /\ snapshot' # None
          /\ TheVal(snapshot') \in whole
          /\ TheVal(snapshot') = status
      ]_vars

\* a request holds the whole status of a read failure while the listener is
\* half way through the update of a connect: _status is connected with the
\* old error still in it
C30_Witness ==
    /\ snapshot # None
    /\ TheVal(snapshot).connected = FALSE
    /\ TheVal(snapshot).last_error = Some("read failed")
    /\ tpc["listener"] = "s77"
    /\ statLock = Some("listener")
    /\ status.connected = TRUE
    /\ status.last_error = Some("read failed")

\* the labels of a thread inside build_features
InBuild == {"b66", "b67", "b70", "b77", "b124"}
\* the labels of a thread inside _set_status or get_serial_status
InStatus == {"s77", "g72"}

\* C31: no thread holds FEATURE_BUFFER._lock and serial_reader._lock at the
\* same time: the holder of either lock is inside the function that took it,
\* where it needs no other lock to go on and release it.
C31_NeverBothLocks ==
    \A t \in Threads :
        /\ ~(featLock = Some(t) /\ statLock = Some(t))
        /\ featLock = Some(t) => tpc[t] \in InBuild
        /\ statLock = Some(t) => tpc[t] \in InStatus
        /\ tpc[t] \in InBuild => featLock = Some(t)
        /\ tpc[t] \in InStatus => statLock = Some(t)

\* both locks are held, by different threads: the listener is half way
\* through a status update while a request is inside build_features
C31_Witness ==
    /\ statLock = Some("listener")
    /\ featLock = Some("request")
    /\ tpc["listener"] = "s77"
    /\ tpc["request"] = "b77"
    /\ fb.samples # <<>>

----------------------------------------------------------------------------
(* The retention of samples, feature_engineering.py lines 43-47 *)

\* the 35 minutes the comment of line 44 names, in seconds
RetentionSeconds == 35 * 60

\* C32: at every build_features call each sample the buffer retains is at
\* most 35 minutes old: older samples have been dropped, however rarely
\* samples arrive.
C32_SamplesAgeOut ==
    [][Builds =>
          \A i \in DOMAIN fb'.samples :
              now - fb'.samples[i].ts <= RetentionSeconds
      ]_vars

----------------------------------------------------------------------------
(* The status in the read loop, serial_reader.py lines 111-167 *)

\* C33: whenever the listener is inside its read loop, reading lines or
\* running the pipeline on one, status.connected is True: after a read
\* failure it does not read again while the status reports connected = False.
C33_ConnectedInReadLoop ==
    InReadLoop => status.connected
====
